---------------------------- MODULE Spec2Model ----------------------------
(***************************************************************************)
(* Model of the Sunforecast Plus forecast pipeline:                        *)
(*   OpenMeteoSolarForecast.estimate()      (open_meteo_solar_forecast.py) *)
(*   OpenMeteoSolarForecastDataUpdateCoordinator._async_update_data,       *)
(*   ._fetch_hourly_cloud_cover, ._adjust_estimate_with_cloud_cover        *)
(*                                                      (coordinator.py)   *)
(*                                                                         *)
(* Numbers.  Python floats are modelled by exact rationals <<n, d>> in     *)
(* lowest terms with d > 0.  Datetimes are whole minutes counted from a    *)
(* fixed midnight; an aware datetime is its wall-clock minute together     *)
(* with the UTC offset of the Estimate it belongs to.                      *)
(***************************************************************************)
EXTENDS Integers, Sequences, FiniteSets, TLC

(***************************************************************************)
(* Rational arithmetic                                                     *)
(***************************************************************************)
Abs(x) == IF x < 0 THEN -x ELSE x

RECURSIVE Gcd(_, _)
Gcd(a, b) == IF b = 0 THEN a ELSE Gcd(b, a % b)

RNorm(n, d) ==
    LET g == Gcd(Abs(n), Abs(d))
        s == IF d < 0 THEN -1 ELSE 1
    IN  IF n = 0 THEN <<0, 1>> ELSE <<(s * n) \div g, (s * d) \div g>>

RInt(i) == <<i, 1>>
RAdd(a, b) == RNorm(a[1] * b[2] + b[1] * a[2], a[2] * b[2])
RSub(a, b) == RNorm(a[1] * b[2] - b[1] * a[2], a[2] * b[2])
RMul(a, b) == RNorm(a[1] * b[1], a[2] * b[2])
RDiv(a, b) == RNorm(a[1] * b[2], a[2] * b[1])
RLeq(a, b) == a[1] * b[2] <= b[1] * a[2]
RZero == RInt(0)
ROne == RInt(1)

(***************************************************************************)
(* Dictionaries are functions; their key set is DOMAIN.                    *)
(***************************************************************************)
EmptyDict == [k \in {} |-> 0]

DictPut(f, k, v) == [x \in (DOMAIN f) \cup {k} |-> IF x = k THEN v ELSE f[x]]

DictGet(f, k, default) == IF k \in DOMAIN f THEN f[k] ELSE default

RECURSIVE RSumOver(_, _)
RSumOver(f, keys) ==
    IF keys = {} THEN RZero
    ELSE LET k == CHOOSE x \in keys : TRUE
         IN  RAdd(f[k], RSumOver(f, keys \ {k}))

RSum(f) == RSumOver(f, DOMAIN f)

RECURSIVE SeqSum(_)
SeqSum(s) == IF s = <<>> THEN 0 ELSE Head(s) + SeqSum(Tail(s))

(***************************************************************************)
(* Calendar                                                                *)
(***************************************************************************)
DateOf(m) == m \div 1440
HourOf(m) == (m % 1440) \div 60
HourStart(m) == m - (m % 60)
At(day, hour, minute) == day * 1440 + hour * 60 + minute

(***************************************************************************)
(* Optional values: None is <<>>, a present value v is <<v>>.              *)
(***************************************************************************)
None == <<>>
Some(v) == <<v>>
IsNone(x) == x = <<>>
Val(x) == x[1]

(***************************************************************************)
(* An ISO-8601 string "YYYY-MM-DDTHH:MM" is the record of its fields; a    *)
(* string datetime.fromisoformat rejects has valid = FALSE.  Parsing gives *)
(* the naive wall-clock minute, or None where Python raises ValueError.    *)
(***************************************************************************)
IsoString(day, hour, minute) ==
    [valid |-> TRUE, day |-> day, hour |-> hour, minute |-> minute]

Malformed == [valid |-> FALSE, day |-> 0, hour |-> 0, minute |-> 0]

FromIsoFormat(timestamp_str) ==
    IF timestamp_str.valid
    THEN Some(At(timestamp_str.day, timestamp_str.hour, timestamp_str.minute))
    ELSE None

(***************************************************************************)
(* Bounds of the model                                                     *)
(***************************************************************************)
MaxArrays == 2      \* arrays configured when the client is used directly
MaxCloudLen == 2    \* entries of hourly.cloud_cover / hourly.time
MaxCycles == 2      \* update cycles of one coordinator
MaxPasses == 2      \* direct invocations of the correction on one Estimate

(***************************************************************************)
(* The weather document of one array (minutely_15 and utc_offset_seconds). *)
(* minutely_15.time is the interval end; five stamps are kept: the first   *)
(* sample of the series, one at the start of day 1, two in the hour 12:00  *)
(* of day 1 and one on day 2.  gen_power's physical constants live in      *)
(* constants.py; an irradiance entry carries the whole-watt value          *)
(* gen_power returns for it (round(max(0, power)) is a natural number).    *)
(* The first sample of a document carries the irradiance of the second.    *)
(***************************************************************************)
TimeStrings ==
    <<IsoString(1, 0, 0), IsoString(1, 0, 15), IsoString(1, 12, 15),
      IsoString(1, 12, 30), IsoString(2, 1, 15)>>

StrPTime(time) == At(time.day, time.hour, time.minute)

UtcOffsets == {0, 180}          \* utc_offset_seconds, in minutes

SampleKinds ==
    {[gti_avg |-> None, gti_inst |-> Some(500)],
     [gti_avg |-> Some(450), gti_inst |-> None],
     [gti_avg |-> Some(0), gti_inst |-> Some(0)],
     [gti_avg |-> Some(450), gti_inst |-> Some(500)]}

SampleIndex == 1 .. Len(TimeStrings)

WeatherDocument(utc_offset, kinds, temp) ==
    [utc_offset_seconds |-> utc_offset,
     time |-> TimeStrings,
     gti_avg |-> [i \in SampleIndex |-> kinds[IF i = 1 THEN 2 ELSE i].gti_avg],
     gti_inst |-> [i \in SampleIndex |-> kinds[IF i = 1 THEN 2 ELSE i].gti_inst],
     temp |-> temp]

\* temperature series: complete, or the third value missing
TempPatterns ==
    {[i \in SampleIndex |-> IF i = k THEN None ELSE Some(20)] : k \in {0, 3}}

\* the two samples of the hour 12:00 are of any kind, the sample at the
\* start of day 1 is complete or without its averaged irradiance, the one
\* on day 2 is complete (dark or bright)
KindsAt(i) ==
    IF i = 2 THEN {k \in SampleKinds : ~IsNone(k.gti_inst) /\ k.gti_inst # Some(0)}
    ELSE IF i = Len(TimeStrings) THEN {k \in SampleKinds : ~IsNone(k.gti_avg) /\ ~IsNone(k.gti_inst)}
    ELSE SampleKinds

\* the documents the API may answer with when the client is driven directly
Responses ==
    {WeatherDocument(o, k, t) :
        o \in UtcOffsets,
        k \in {f \in [SampleIndex \ {1} -> SampleKinds] :
                   \A i \in SampleIndex \ {1} : f[i] \in KindsAt(i)},
        t \in TempPatterns}

\* the documents drawn in the update cycles of the coordinator: every
\* sample of one kind, at most the first temperature missing
CycleResponses ==
    {WeatherDocument(o, [i \in SampleIndex \ {1} |-> kind],
                     [i \in SampleIndex |-> IF i = k THEN None ELSE Some(20)]) :
        o \in UtcOffsets, kind \in SampleKinds, k \in {0, 1}}

(***************************************************************************)
(* calculate_damping_coefficient.  Times are minutes of the day, as exact  *)
(* values; sunrise is before sunset.                                       *)
(***************************************************************************)
\* variant: the damping factor used as it is given
LinearDampingNotInverted(time, start, end, damping_factor) ==
    LET duration == RSub(end, start)
        elapsed == RSub(time, start)
    IN  RAdd(RMul(RDiv(elapsed, duration), RSub(ROne, damping_factor)), damping_factor)

LinearDamping(time, start, end, damping_factor) ==
    LET duration == RSub(end, start)
        elapsed == RSub(time, start)
        inverted == RSub(ROne, damping_factor)
    IN  RAdd(RMul(RDiv(elapsed, duration), RSub(ROne, inverted)), inverted)

MorningEnd(sunrise, sunset) == RAdd(sunrise, RDiv(RSub(sunset, sunrise), RInt(2)))

calculate_damping_coefficient(time, sunrise, sunset, damping_morning, damping_evening) ==
    LET morning_start == sunrise
        morning_end == MorningEnd(sunrise, sunset)
        evening_start == morning_end
        evening_end == sunset
    IN  IF RLeq(morning_start, time) /\ RLeq(time, morning_end)
        THEN LinearDamping(time, morning_start, morning_end, damping_morning)
        ELSE IF RLeq(evening_start, time) /\ RLeq(time, evening_end)
        THEN LinearDamping(time, evening_end, evening_start, damping_evening)
        ELSE ROne

\* the sample times of one day, and the sunrise and sunset of daily.*
DampingTimes == <<240, 300, 360, 540, 690, 720, 750, 900, 1080, 1140, 1200>>
Sunrises == {300, 360}
Sunsets == {1080, 1140}
DampingOptions == {<<0, 1>>, <<1, 4>>, <<1, 1>>}

gen_power(gti) == IF gti < 0 THEN 0 ELSE gti

TimeStart(time) == time - 15

\* variant: the temperatures not looked at
SampleSkippedOnIrradiance(data, i) ==
    \/ i - 1 < 1
    \/ IsNone(data.gti_avg[i])
    \/ IsNone(data.gti_inst[i])

SampleSkipped(data, i) ==
    \/ i - 1 < 1
    \/ IsNone(data.gti_avg[i])
    \/ IsNone(data.gti_inst[i])
    \/ IsNone(data.temp[i - 1])
    \/ IsNone(data.temp[i])

DictAdd(f, k, v) == DictPut(f, k, DictGet(f, k, 0) + v)

RECURSIVE AccumulateSamples(_, _, _)
AccumulateSamples(acc, data, i) ==
    IF i > Len(data.time) THEN acc
    ELSE IF SampleSkipped(data, i) THEN AccumulateSamples(acc, data, i + 1)
    ELSE LET ts == TimeStart(StrPTime(data.time[i]))
         IN  AccumulateSamples(
                 [w_avg |-> DictAdd(acc.w_avg, ts, gen_power(Val(data.gti_avg[i]))),
                  w_inst |-> DictAdd(acc.w_inst, ts, gen_power(Val(data.gti_inst[i])))],
                 data, i + 1)

(***************************************************************************)
(* Clamp to the AC power; ac_wp = None stands for float("inf").            *)
(***************************************************************************)
\* variant: the summed watts kept as they are
ClampValueNoCeiling(w, ac_wp) == w

ClampValue(w, ac_wp) == IF IsNone(ac_wp) \/ w <= Val(ac_wp) THEN w ELSE Val(ac_wp)

Clamp(w, ac_wp) == [t \in DOMAIN w |-> ClampValue(w[t], ac_wp)]

(***************************************************************************)
(* Hourly mean of the clamped averaged watts, and the daily sums.  The     *)
(* loops run over the dictionary items; the items are taken in ascending   *)
(* key order.                                                              *)
(***************************************************************************)
RECURSIVE Items(_)
Items(keys) ==
    IF keys = {} THEN <<>>
    ELSE LET m == CHOOSE x \in keys : \A y \in keys : x <= y
         IN  <<m>> \o Items(keys \ {m})

RECURSIVE HourlyTotals(_, _, _, _)
HourlyTotals(w, times, j, acc) ==
    IF j > Len(times) THEN acc
    ELSE LET hour == HourStart(times[j])
         IN  HourlyTotals(w, times, j + 1,
                 [wh_period |-> DictPut(acc.wh_period, hour,
                                        DictGet(acc.wh_period, hour, 0) + w[times[j]]),
                  wh_period_count |-> DictPut(acc.wh_period_count, hour,
                                        DictGet(acc.wh_period_count, hour, 0) + 1)])

\* variant: the hour's total left undivided
WhPeriodTotal(w) ==
    LET acc == HourlyTotals(w, Items(DOMAIN w), 1,
                            [wh_period |-> EmptyDict, wh_period_count |-> EmptyDict])
    IN  [hour \in DOMAIN acc.wh_period |-> RInt(acc.wh_period[hour])]

WhPeriod(w) ==
    LET acc == HourlyTotals(w, Items(DOMAIN w), 1,
                            [wh_period |-> EmptyDict, wh_period_count |-> EmptyDict])
    IN  [hour \in DOMAIN acc.wh_period |->
            RDiv(RInt(acc.wh_period[hour]), RInt(acc.wh_period_count[hour]))]

\* variant: the day's entry assigned instead of accumulated
RECURSIVE DailyTotalsAssigned(_, _, _, _)
DailyTotalsAssigned(wh_period, hours, j, wh_days) ==
    IF j > Len(hours) THEN wh_days
    ELSE DailyTotalsAssigned(wh_period, hours, j + 1,
             DictPut(wh_days, DateOf(hours[j]), wh_period[hours[j]]))

RECURSIVE DailyTotals(_, _, _, _)
DailyTotals(wh_period, hours, j, wh_days) ==
    IF j > Len(hours) THEN wh_days
    ELSE LET day == DateOf(hours[j])
         IN  DailyTotals(wh_period, hours, j + 1,
                 DictPut(wh_days, day,
                         RAdd(DictGet(wh_days, day, RZero), wh_period[hours[j]])))

\* variant: the hours without production left out of the daily sums
WhDaysOfProduction(wh_period) ==
    DailyTotals(wh_period, Items({h \in DOMAIN wh_period : wh_period[h] # RZero}), 1, EmptyDict)

WhDays(wh_period) == DailyTotals(wh_period, Items(DOMAIN wh_period), 1, EmptyDict)

BuildEstimate(w_avg, w_inst, ac_wp, utc_offset) ==
    LET avg == Clamp(w_avg, ac_wp)
        inst == Clamp(w_inst, ac_wp)
        period == WhPeriod(avg)
    IN  [watts |-> [t \in DOMAIN inst |-> RInt(inst[t])],
         wh_period |-> period,
         wh_days |-> WhDays(period),
         api_timezone |-> utc_offset]

(***************************************************************************)
(* The cloud document: hourly.cloud_cover (percent) and hourly.time, and   *)
(* the dictionary from parsed cloud time to cover.                         *)
(***************************************************************************)
RECURSIVE CloudCoverDict(_, _, _, _)
CloudCoverDict(cloud_timestamps, cloud_cover_data, i, dict) ==
    IF i > Len(cloud_timestamps) THEN dict
    ELSE LET cloud_dt == FromIsoFormat(cloud_timestamps[i])
         IN  IF i <= Len(cloud_cover_data) /\ ~IsNone(cloud_dt)
             THEN CloudCoverDict(cloud_timestamps, cloud_cover_data, i + 1,
                      [keys |-> IF Val(cloud_dt) \in DOMAIN dict.cover
                                THEN dict.keys
                                ELSE Append(dict.keys, Val(cloud_dt)),
                       cover |-> DictPut(dict.cover, Val(cloud_dt), cloud_cover_data[i])])
             ELSE CloudCoverDict(cloud_timestamps, cloud_cover_data, i + 1, dict)

EmptyCloudDict == [keys |-> <<>>, cover |-> EmptyDict]

(***************************************************************************)
(* Alignment of one watts timestamp with the cloud series.                 *)
(***************************************************************************)
InitialMinDifference == 1440    \* timedelta(hours=24)
MatchWindow == 120              \* timedelta(hours=2)

AsNaiveUtc(timestamp, utc_offset) == timestamp - utc_offset

RECURSIVE ScanClosest(_, _, _, _)
ScanClosest(keys, j, dt1, best) ==
    IF j > Len(keys) THEN best
    ELSE LET difference == Abs(dt1 - keys[j])
         IN  IF difference < best.min_difference
             THEN ScanClosest(keys, j + 1, dt1,
                      [closest_timestamp |-> Some(keys[j]),
                       min_difference |-> difference])
             ELSE ScanClosest(keys, j + 1, dt1, best)

\* variant: the index wrapped into the array
HourIndexCoverWrapped(timestamp, today, cloud_cover_data) ==
    LET day_offset == DateOf(timestamp) - today
        hour_index == HourOf(timestamp) + (day_offset * 24)
    IN  IF cloud_cover_data # <<>>
        THEN cloud_cover_data[(hour_index % Len(cloud_cover_data)) + 1]
        ELSE 0

HourIndexCover(timestamp, today, cloud_cover_data) ==
    LET day_offset == DateOf(timestamp) - today
        hour_index == HourOf(timestamp) + (day_offset * 24)
    IN  IF 0 <= hour_index /\ hour_index < Len(cloud_cover_data)
        THEN cloud_cover_data[hour_index + 1]
        ELSE 0

\* variant: a nearest stamp exactly two hours away is refused
WithinWindowStrict(best) ==
    ~IsNone(best.closest_timestamp) /\ best.min_difference < MatchWindow

WithinWindow(best) ==
    ~IsNone(best.closest_timestamp) /\ best.min_difference <= MatchWindow

WattsCloudCover(timestamp, utc_offset, dict, cloud_cover_data, today) ==
    IF dict.keys # <<>>
    THEN LET best == ScanClosest(dict.keys, 1, AsNaiveUtc(timestamp, utc_offset),
                         [closest_timestamp |-> None,
                          min_difference |-> InitialMinDifference])
         IN  IF WithinWindow(best)
             THEN dict.cover[Val(best.closest_timestamp)]
             ELSE HourIndexCover(timestamp, today, cloud_cover_data)
    ELSE HourIndexCover(timestamp, today, cloud_cover_data)

WhPeriodCloudCover(timestamp, dict, cloud_cover_data, today) ==
    IF dict.keys # <<>>
    THEN 0
    ELSE HourIndexCover(timestamp, today, cloud_cover_data)

\* variant: the coefficient applied to the clear share of the sky
AdjustmentFactorOfClearSky(cloud_cover_percent, cloud_correction_factor) ==
    RMul(RSub(ROne, RDiv(cloud_cover_percent, RInt(100))), cloud_correction_factor)

\* variant: the cloudy share added
AdjustmentFactorAdding(cloud_cover_percent, cloud_correction_factor) ==
    RAdd(ROne, RMul(RDiv(cloud_cover_percent, RInt(100)), cloud_correction_factor))

AdjustmentFactor(cloud_cover_percent, cloud_correction_factor) ==
    RSub(ROne, RMul(RDiv(cloud_cover_percent, RInt(100)), cloud_correction_factor))

(***************************************************************************)
(* Mean cloud cover per date (date_cloud_cover).                           *)
(***************************************************************************)
RECURSIVE DateCloudCoverByTime(_, _, _, _)
DateCloudCoverByTime(cloud_timestamps, cloud_cover_data, i, acc) ==
    IF i > Len(cloud_timestamps) THEN acc
    ELSE LET cloud_dt == FromIsoFormat(cloud_timestamps[i])
         IN  IF i <= Len(cloud_cover_data) /\ ~IsNone(cloud_dt)
             THEN LET date == DateOf(Val(cloud_dt))
                      prev == DictGet(acc, date, [total |-> 0, count |-> 0])
                  IN  DateCloudCoverByTime(cloud_timestamps, cloud_cover_data, i + 1,
                          DictPut(acc, date,
                                  [total |-> prev.total + cloud_cover_data[i],
                                   count |-> prev.count + 1]))
             ELSE DateCloudCoverByTime(cloud_timestamps, cloud_cover_data, i + 1, acc)

Slice(seq, start, end) ==
    LET lo == IF start < 0 THEN 0 ELSE start
        hi == IF end > Len(seq) THEN Len(seq) ELSE end
    IN  IF hi <= lo THEN <<>> ELSE SubSeq(seq, lo + 1, hi)

RECURSIVE DateCloudCoverBySlice(_, _, _, _)
DateCloudCoverBySlice(cloud_cover_data, i, today, acc) ==
    IF i >= Len(cloud_cover_data) THEN acc
    ELSE LET day_slice == Slice(cloud_cover_data, i, i + 24)
         IN  DateCloudCoverBySlice(cloud_cover_data, i + 24, today,
                 DictPut(acc, today + (i \div 24),
                         [total |-> SeqSum(day_slice), count |-> Len(day_slice)]))

DateCloudCover(cloud_timestamps, cloud_cover_data, today) ==
    IF cloud_timestamps # <<>>
    THEN DateCloudCoverByTime(cloud_timestamps, cloud_cover_data, 1, EmptyDict)
    ELSE DateCloudCoverBySlice(cloud_cover_data, 0, today, EmptyDict)

AvgCloudCover(day, date_cloud_cover, cloud_cover_data, today) ==
    IF day \in DOMAIN date_cloud_cover /\ date_cloud_cover[day].count > 0
    THEN RDiv(RInt(date_cloud_cover[day].total), RInt(date_cloud_cover[day].count))
    ELSE LET start_idx == (day - today) * 24
             day_slice == IF 0 <= start_idx /\ start_idx < Len(cloud_cover_data)
                          THEN Slice(cloud_cover_data, start_idx, start_idx + 24)
                          ELSE <<>>
         IN  IF day_slice # <<>>
             THEN RDiv(RInt(SeqSum(day_slice)), RInt(Len(day_slice)))
             ELSE RZero

DailyCorrectionFactor(cloud_correction_factor) == <<7, 10>>

(***************************************************************************)
(* estimate.now(): the wall clock in the Estimate's own UTC offset.        *)
(***************************************************************************)
EstimateNow(estimate, now_utc) == now_utc + estimate.api_timezone

(***************************************************************************)
(* The correction pass of the coordinator, on a non-empty cloud_cover_data.*)
(***************************************************************************)
AdjustedWatts(estimate, dict, cloud_cover_data, today, cloud_correction_factor) ==
    [t \in DOMAIN estimate.watts |->
        RMul(estimate.watts[t],
             AdjustmentFactor(
                 RInt(WattsCloudCover(t, estimate.api_timezone, dict,
                                      cloud_cover_data, today)),
                 cloud_correction_factor))]

AdjustedWhPeriod(estimate, dict, cloud_cover_data, today, cloud_correction_factor) ==
    [t \in DOMAIN estimate.wh_period |->
        RMul(estimate.wh_period[t],
             AdjustmentFactor(
                 RInt(WhPeriodCloudCover(t, dict, cloud_cover_data, today)),
                 cloud_correction_factor))]

\* variant: an entry written for every date the cloud series covers
AdjustedWhDaysOfCloudDates(estimate, cloud_timestamps, cloud_cover_data, today, cloud_correction_factor) ==
    LET date_cloud_cover == DateCloudCover(cloud_timestamps, cloud_cover_data, today)
    IN  [day \in (DOMAIN estimate.wh_days) \cup (DOMAIN date_cloud_cover) |->
            RMul(DictGet(estimate.wh_days, day, RZero),
                 AdjustmentFactor(
                     AvgCloudCover(day, date_cloud_cover, cloud_cover_data, today),
                     DailyCorrectionFactor(cloud_correction_factor)))]

AdjustedWhDays(estimate, cloud_timestamps, cloud_cover_data, today, cloud_correction_factor) ==
    LET date_cloud_cover == DateCloudCover(cloud_timestamps, cloud_cover_data, today)
    IN  [day \in DOMAIN estimate.wh_days |->
            RMul(estimate.wh_days[day],
                 AdjustmentFactor(
                     AvgCloudCover(day, date_cloud_cover, cloud_cover_data, today),
                     DailyCorrectionFactor(cloud_correction_factor)))]

AdjustEstimate(estimate, cloud_timestamps, cloud_cover_data, now_utc, cloud_correction_factor) ==
    LET today == DateOf(EstimateNow(estimate, now_utc))
        dict == IF cloud_timestamps # <<>>
                THEN CloudCoverDict(cloud_timestamps, cloud_cover_data, 1, EmptyCloudDict)
                ELSE EmptyCloudDict
    IN  [watts |-> AdjustedWatts(estimate, dict, cloud_cover_data, today,
                                 cloud_correction_factor),
         wh_period |-> AdjustedWhPeriod(estimate, dict, cloud_cover_data, today,
                                        cloud_correction_factor),
         wh_days |-> AdjustedWhDays(estimate, cloud_timestamps, cloud_cover_data,
                                    today, cloud_correction_factor),
         api_timezone |-> estimate.api_timezone]

AdjustmentPct(total_energy_before, total_energy_after) ==
    IF total_energy_before # RZero
    THEN RMul(RDiv(RSub(total_energy_after, total_energy_before), total_energy_before),
              RInt(100))
    ELSE RZero

AverageCloudCover(cloud_cover_data) ==
    LET first == Slice(cloud_cover_data, 0, 24)
    IN  RDiv(RInt(SeqSum(first)), RInt(Len(first)))

\* adjustment_log starts empty and the wh_period loop adds to the dates
\* it already holds
RECURSIVE AdjustmentLog(_, _, _, _, _)
AdjustmentLog(log, hours, j, before, after) ==
    IF j > Len(hours) THEN log
    ELSE LET date == DateOf(hours[j])
         IN  AdjustmentLog(
                 IF date \in DOMAIN log
                 THEN [log EXCEPT ![date] =
                          [original_total |-> RAdd(@.original_total, before[hours[j]]),
                           adjusted_total |-> RAdd(@.adjusted_total, after[hours[j]])]]
                 ELSE log,
                 hours, j + 1, before, after)

AdjustmentStats(before, after, cloud_cover_data) ==
    [average_cloud_cover |-> AverageCloudCover(cloud_cover_data),
     total_energy_before_adjustment |-> RSum(before.wh_period),
     total_energy_after_adjustment |-> RSum(after.wh_period),
     adjustment_percentage |-> AdjustmentPct(RSum(before.wh_period), RSum(after.wh_period)),
     daily_adjustments |-> AdjustmentLog(EmptyDict, Items(DOMAIN before.wh_period), 1,
                                         before.wh_period, after.wh_period)]

OriginalValues(estimate) ==
    [watts |-> estimate.watts, wh_period |-> estimate.wh_period,
     wh_days |-> estimate.wh_days]

(***************************************************************************)
(* The cloud documents the API may answer with.                            *)
(***************************************************************************)
CloudVals == {0, 100}

\* a JSON null in hourly.cloud_cover, and the arithmetic on it failing
Null == 0 - 1
HasNull(cover) == \E i \in 1 .. Len(cover) : i <= 24 /\ cover[i] = Null

CloudStamps ==
    {Malformed, IsoString(1, 10, 0), IsoString(1, 11, 59), IsoString(2, 0, 0)}

SeqsUpTo(S, n) == UNION {[1 .. k -> S] : k \in 0 .. n}

CloudDocument(cover, time) == [cloud_cover |-> cover, time |-> time]

\* hourly.time is absent, or parallel to hourly.cloud_cover; the shortest
\* series also come with one stamp too many
Feeds ==
    {d \in {CloudDocument(c, t) : c \in SeqsUpTo(CloudVals, MaxCloudLen),
                                  t \in SeqsUpTo(CloudStamps, MaxCloudLen)} :
        \/ Len(d.time) \in {0, Len(d.cloud_cover)}
        \/ Len(d.cloud_cover) <= 1 /\ Len(d.time) = Len(d.cloud_cover) + 1}

\* the documents drawn in the update cycles of the coordinator: at most one
\* value, a number or null, with its stamp or without hourly.time
CycleFeeds ==
    {d \in {CloudDocument(c, t) : c \in SeqsUpTo(CloudVals \cup {Null}, 1),
                                  t \in SeqsUpTo({IsoString(1, 11, 59)}, 1)} :
        Len(d.time) \in {0, Len(d.cloud_cover)}}

(***************************************************************************)
(* _request: the error raised for a response, None when the JSON document  *)
(* is returned.                                                            *)
(***************************************************************************)
StatusCodes == {200, 400, 401, 403, 422, 429, 500, 502, 503}

\* variant: 401 and 403 left to raise_for_status
RequestErrorWithoutAuthentication(status, is_json) ==
    IF status \in {502, 503} THEN Some("OpenMeteoSolarForecastConnectionError")
    ELSE IF status = 400 THEN Some("OpenMeteoSolarForecastRequestError")
    ELSE IF status = 422 THEN Some("OpenMeteoSolarForecastConfigError")
    ELSE IF status = 429 THEN Some("OpenMeteoSolarForecastRatelimitError")
    ELSE IF status >= 400 THEN Some("ClientResponseError")
    ELSE IF ~is_json THEN Some("OpenMeteoSolarForecastError")
    ELSE None

RequestError(status, is_json) ==
    IF status \in {502, 503} THEN Some("OpenMeteoSolarForecastConnectionError")
    ELSE IF status = 400 THEN Some("OpenMeteoSolarForecastRequestError")
    ELSE IF status \in {401, 403} THEN Some("OpenMeteoSolarForecastAuthenticationError")
    ELSE IF status = 422 THEN Some("OpenMeteoSolarForecastConfigError")
    ELSE IF status = 429 THEN Some("OpenMeteoSolarForecastRatelimitError")
    ELSE IF status >= 400 THEN Some("ClientResponseError")
    ELSE IF ~is_json THEN Some("OpenMeteoSolarForecastError")
    ELSE None

\* _fetch_hourly_cloud_cover: anything but 200 raises
CloudFetchError(status) ==
    IF status # 200 THEN Some("Exception") ELSE None

(***************************************************************************)
(* __post_init__ on the shapes of the per-array fields: a scalar is None,  *)
(* a list of n values is Some(n).                                          *)
(***************************************************************************)
Shapes == {None} \cup {Some(n) : n \in 1 .. MaxArrays}

ListFields == <<"azimuth", "declination", "dc_kwp", "latitude", "longitude">>
OtherFields == <<"efficiency_factor", "damping_morning", "damping_evening">>
FieldNames == {ListFields[i] : i \in 1 .. 5} \cup {OtherFields[i] : i \in 1 .. 3}

\* all(isinstance(param, list) and len(param) == len(self.dc_kwp) for ...):
\* the error of the first parameter that stops the scan; len() of a scalar
\* dc_kwp is a TypeError
RECURSIVE SameLength(_, _)
SameLength(f, i) ==
    IF i > Len(ListFields) THEN None
    ELSE IF IsNone(f[ListFields[i]]) THEN Some("OpenMeteoSolarForecastConfigError")
    ELSE IF IsNone(f.dc_kwp) THEN Some("TypeError")
    ELSE IF f[ListFields[i]] # f.dc_kwp THEN Some("OpenMeteoSolarForecastConfigError")
    ELSE SameLength(f, i + 1)

ValidateLists(f) ==
    IF \E i \in 1 .. Len(ListFields) : ~IsNone(f[ListFields[i]])
    THEN [error |-> SameLength(f, 1), fields |-> f]
    ELSE [error |-> None,
          fields |-> [n \in FieldNames |->
                        IF \E i \in 1 .. Len(ListFields) : ListFields[i] = n
                        THEN Some(1) ELSE f[n]]]

\* test_param_len for the i-th of efficiency_factor, damping_morning,
\* damping_evening and the ones after it
RECURSIVE TestParamLen(_, _)
TestParamLen(f, i) ==
    IF i > Len(OtherFields) THEN [error |-> None, fields |-> f]
    ELSE LET attr == f[OtherFields[i]]
         IN  IF ~IsNone(attr) /\ attr # f.dc_kwp
             THEN [error |-> Some("OpenMeteoSolarForecastConfigError"), fields |-> f]
             ELSE TestParamLen([f EXCEPT ![OtherFields[i]] = f.dc_kwp], i + 1)

PostInit(f) ==
    LET lists == ValidateLists(f)
    IN  IF IsNone(lists.error) THEN TestParamLen(lists.fields, 1) ELSE lists

(***************************************************************************)
(* State                                                                   *)
(***************************************************************************)
VARIABLES
    caller,                  \* "coordinator": update cycles; "client": estimate() called directly;
                             \* "harness": the correction called directly on an Estimate
    n_arrays,                \* OpenMeteoSolarForecast: length of the per-array lists
    ac_wp,                   \* OpenMeteoSolarForecast.ac_kwp * 1000, None for inf
    cloud_correction_factor, \* config_entry.options
    damping,                 \* estimate(): sunrise, sunset, the damping options and damping_factors
    options,                 \* what the object is constructed from
    fields,                  \* OpenMeteoSolarForecast: the eight per-array fields, given and current
    now_utc,                 \* the wall clock
    pc,                      \* where the running call is suspended
    idx,                     \* estimate(): arrays processed
    utc_offset,              \* estimate(): utc_offset
    w_avg,                   \* estimate(): w_avg
    w_inst,                  \* estimate(): w_inst
    estimate,                \* the Estimate object of the running call
    data,                    \* DataUpdateCoordinator.data
    daily_forecasts,         \* coordinator.daily_forecasts
    cloud_cover_data,        \* coordinator.cloud_cover_data
    original_values,         \* coordinator.original_values
    adjustment_stats,        \* coordinator.adjustment_stats
    last_cloud_api_response, \* coordinator.last_cloud_api_response
    error,                   \* the exception the running call raised
    outcome,                 \* "none", "ok", "failed": how the last call ended
    base,                    \* history: the Estimate as estimate() returned it
    contrib,                 \* history: per interval start, the watts each array contributed
    passes,                  \* history: executions of the correction body on estimate
    cycle,                   \* history: calls started
    requested,               \* history: an HTTP request has been sent
    response,                \* history: the response _request handled last in the running call
    at_start,                \* history: what the coordinator retained when the running cycle began
    fetched                  \* history: the cloud document the coordinator fetched in the running cycle

vars ==
    <<caller, n_arrays, ac_wp, cloud_correction_factor, damping, now_utc, pc, idx, utc_offset,
      w_avg, w_inst, estimate, data, daily_forecasts, cloud_cover_data,
      original_values, adjustment_stats, last_cloud_api_response, error, outcome,
      base, contrib, passes, cycle, options, requested, response, at_start, fields,
      fetched>>

config == <<caller, n_arrays, ac_wp, cloud_correction_factor, damping, options, fields>>

retained ==
    <<data, daily_forecasts, cloud_cover_data, original_values, adjustment_stats,
      last_cloud_api_response>>

call == <<idx, utc_offset, w_avg, w_inst, contrib>>

Retained ==
    [data |-> data,
     daily_forecasts |-> daily_forecasts,
     cloud_cover_data |-> cloud_cover_data,
     original_values |-> original_values,
     adjustment_stats |-> adjustment_stats]

(***************************************************************************)
(* History: the whole-watt values the samples of a document contribute,    *)
(* kept per interval start as a sorted sequence, one entry per array.      *)
(***************************************************************************)
RECURSIVE InsertSorted(_, _)
InsertSorted(seq, v) ==
    IF seq = <<>> THEN <<v>>
    ELSE IF v <= Head(seq) THEN <<v>> \o seq
    ELSE <<Head(seq)>> \o InsertSorted(Tail(seq), v)

NoContrib == [inst |-> EmptyDict, avg |-> EmptyDict, offsets |-> {}, skipped |-> {}]

\* sample i of a document has a predecessor and all four of its readings
Complete(doc, i) ==
    /\ i > 1
    /\ ~IsNone(doc.gti_avg[i])
    /\ ~IsNone(doc.gti_inst[i])
    /\ ~IsNone(doc.temp[i - 1])
    /\ ~IsNone(doc.temp[i])

RECURSIVE Contribution(_, _, _)
Contribution(c, doc, i) ==
    IF i > Len(doc.time) THEN c
    ELSE LET ts == StrPTime(doc.time[i]) - 15
         IN  IF ~Complete(doc, i)
             THEN Contribution([c EXCEPT !.skipped = @ \cup {ts}], doc, i + 1)
             ELSE Contribution(
                 [c EXCEPT
                    !.inst = DictPut(c.inst, ts,
                                InsertSorted(DictGet(c.inst, ts, <<>>), Val(doc.gti_inst[i]))),
                    !.avg = DictPut(c.avg, ts,
                                InsertSorted(DictGet(c.avg, ts, <<>>), Val(doc.gti_avg[i])))],
                 doc, i + 1)

\* the document of one more array has been summed
Summed(c, doc) ==
    [Contribution(c, doc, 1) EXCEPT !.offsets = @ \cup {doc.utc_offset_seconds}]

\* weather_model, as the identifiers its string joins with ","
WeatherModels == {<<"best_match">>, <<"icon_seamless", "gfs_seamless">>}
\* variant: the identifier is sent as it is
SeparatorUnchecked(weather_model) == FALSE

HasSeparator(weather_model) == Len(weather_model) > 1
ValidOptions ==
    [lists_match |-> TRUE, coordinates_valid |-> TRUE, weather_model |-> <<"best_match">>]

AcValues == {None, Some(800)}
CorrectionFactors == {<<7, 10>>, <<1, 1>>}
NowVals == {At(1, 22, 0), At(2, 10, 0)}

InputResponses == IF caller = "client" THEN Responses ELSE CycleResponses
InputFeeds == IF caller = "harness" THEN Feeds ELSE CycleFeeds

InitCoordinator ==
    /\ data = None
    /\ daily_forecasts = EmptyDict
    /\ cloud_cover_data = <<>>
    /\ original_values = EmptyDict
    /\ adjustment_stats = EmptyDict
    /\ last_cloud_api_response = None
    /\ error = None
    /\ passes = 0
    /\ at_start = Retained

InitIdle ==
    /\ pc = "new"
    /\ requested = FALSE
    /\ response = None
    /\ fetched = None
    /\ idx = 0
    /\ utc_offset = None
    /\ w_avg = EmptyDict
    /\ w_inst = EmptyDict
    /\ estimate = None
    /\ outcome = "none"
    /\ base = None
    /\ contrib = NoContrib
    /\ cycle = 0
    /\ damping = None
    /\ fields = None
    /\ InitCoordinator

\* the coordinator builds its client from the options of its config entry:
\* one array, and CONF_INVERTER_POWER is left at 0: no AC ceiling.  An
\* option holding a list of another length fails __post_init__.
Init ==
    /\ caller = "coordinator"
    /\ n_arrays = 1
    /\ ac_wp = None
    /\ cloud_correction_factor \in CorrectionFactors
    /\ now_utc = At(1, 22, 0)
    /\ options \in [lists_match : BOOLEAN, coordinates_valid : BOOLEAN,
                     weather_model : WeatherModels]
    /\ InitIdle

\* the client used as a library: per-array lists of any common length
InitClient ==
    /\ caller = "client"
    /\ n_arrays \in 1 .. MaxArrays
    /\ ac_wp \in AcValues
    /\ cloud_correction_factor = <<7, 10>>
    /\ now_utc = At(2, 10, 0)
    /\ options \in [lists_match : BOOLEAN, coordinates_valid : {TRUE},
                     weather_model : WeatherModels]
    /\ InitIdle

\* an Estimate estimate() has returned for one array, in the hands of a
\* caller of the correction
InitHarness ==
    /\ caller = "harness"
    /\ n_arrays = 1
    /\ ac_wp = None
    /\ cloud_correction_factor \in CorrectionFactors
    /\ now_utc \in NowVals
    /\ pc = "returned"
    /\ idx = 1
    /\ \E doc \in CycleResponses :
        LET acc == AccumulateSamples([w_avg |-> EmptyDict, w_inst |-> EmptyDict], doc, 1)
            est == BuildEstimate(acc.w_avg, acc.w_inst, ac_wp, doc.utc_offset_seconds)
        IN  /\ w_avg = acc.w_avg
            /\ w_inst = acc.w_inst
            /\ utc_offset = Some(doc.utc_offset_seconds)
            /\ contrib = Summed(NoContrib, doc)
            /\ estimate = Some(est)
            /\ base = Some(est)
    /\ outcome = "ok"
    /\ cycle = 1
    /\ damping = None
    /\ fields = None
    /\ options = ValidOptions
    /\ requested = FALSE
    /\ response = None
    /\ fetched = None
    /\ InitCoordinator

(***************************************************************************)
(* Construction.  The coordinator checks the coordinates and builds its    *)
(* client; __post_init__ compares the lengths of the per-array lists.      *)
(***************************************************************************)
ConstructionError(who, opts) ==
    IF who = "coordinator" /\ ~opts.coordinates_valid THEN Some("ValueError")
    ELSE IF ~opts.lists_match THEN Some("OpenMeteoSolarForecastConfigError")
    ELSE None

Construct ==
    /\ pc = "new"
    /\ IF IsNone(ConstructionError(caller, options))
       THEN /\ pc' = "idle"
            /\ UNCHANGED <<error, outcome>>
       ELSE /\ pc' = "unconstructed"
            /\ error' = ConstructionError(caller, options)
            /\ outcome' = "failed"
    /\ UNCHANGED <<config, retained, call, now_utc, estimate, base, passes, cycle,
                   requested, at_start, fetched, response>>

(***************************************************************************)
(* The running call raises.  Under the coordinator every exception leaves  *)
(* _async_update_data as OpenMeteoSolarForecastUpdateFailed.               *)
(***************************************************************************)
\* variant: the error is logged and the call ends as if it had succeeded
RaiseLoggedOnly(kind) ==
    /\ pc' = "idle"
    /\ error' = Some(kind)
    /\ outcome' = "ok"

Raise(kind) ==
    /\ pc' = "idle"
    /\ error' = Some(kind)
    /\ outcome' = "failed"

(***************************************************************************)
(* A call begins: estimate() sends the request of the first array.         *)
(***************************************************************************)
BeginEstimate ==
    /\ now_utc' \in {t \in NowVals : t >= now_utc}
    /\ idx' = 0
    /\ utc_offset' = None
    /\ w_avg' = EmptyDict
    /\ w_inst' = EmptyDict
    /\ contrib' = NoContrib
    /\ estimate' = None
    /\ base' = None
    /\ passes' = 0
    /\ response' = None
    /\ at_start' = Retained
    /\ fetched' = None
    /\ cycle' = cycle + 1
    /\ IF HasSeparator(options.weather_model)
       THEN /\ Raise("OpenMeteoSolarForecastInvalidModel")
            /\ requested' = requested
       ELSE /\ pc' = "weather"
            /\ error' = None
            /\ outcome' = "none"
            /\ requested' = TRUE
    /\ UNCHANGED <<config, retained>>

\* _async_update_data is called by the update coordinator
StartCycle ==
    /\ caller = "coordinator"
    /\ pc = "idle"
    /\ cycle < MaxCycles
    /\ BeginEstimate

\* estimate() is called on the client directly
CallEstimate ==
    /\ caller = "client"
    /\ pc = "idle"
    /\ cycle = 0
    /\ BeginEstimate

(***************************************************************************)
(* The weather document of array idx + 1 arrives.                          *)
(***************************************************************************)
\* variant: the offsets of the arrays are not compared
OffsetMismatchIgnored(first, offset) == FALSE

OffsetMismatch(first, offset) == ~IsNone(first) /\ Val(first) # offset

WeatherResponse ==
    /\ pc = "weather"
    /\ \E doc \in InputResponses :
        IF OffsetMismatch(utc_offset, doc.utc_offset_seconds)
        THEN /\ Raise("OpenMeteoSolarForecastConfigError")
             /\ response' = Some([status |-> 200, is_json |-> TRUE,
                                  utc_offset_seconds |-> Some(doc.utc_offset_seconds)])
             /\ UNCHANGED <<config, retained, call, now_utc, estimate, base, passes, cycle,
                            requested, at_start, fetched>>
        ELSE LET acc == AccumulateSamples([w_avg |-> w_avg, w_inst |-> w_inst], doc, 1)
             IN  /\ utc_offset' = Some(doc.utc_offset_seconds)
                 /\ w_avg' = acc.w_avg
                 /\ w_inst' = acc.w_inst
                 /\ contrib' = Summed(contrib, doc)
                 /\ response' = Some([status |-> 200, is_json |-> TRUE,
                                      utc_offset_seconds |-> Some(doc.utc_offset_seconds)])
                 /\ idx' = idx + 1
                 /\ IF idx + 1 = n_arrays
                    THEN /\ estimate' = Some(BuildEstimate(acc.w_avg, acc.w_inst, ac_wp,
                                                           doc.utc_offset_seconds))
                         /\ pc' = "estimate_cloud"
                    ELSE /\ estimate' = estimate
                         /\ pc' = pc
                 /\ UNCHANGED <<config, retained, now_utc, error, outcome, base, passes, cycle,
                                requested, at_start, fetched>>

WeatherError ==
    /\ pc = "weather"
    /\ \E status \in StatusCodes, is_json \in BOOLEAN :
        /\ ~IsNone(RequestError(status, is_json))
        /\ Raise(Val(RequestError(status, is_json)))
        /\ response' = Some([status |-> status, is_json |-> is_json,
                             utc_offset_seconds |-> None])
    /\ UNCHANGED <<config, retained, call, now_utc, estimate, base, passes, cycle, requested, at_start, fetched>>

(***************************************************************************)
(* estimate() line 709-712: its own cloud fetch is awaited; the call of    *)
(* the async _adjust_estimate_with_cloud_cover is not, so its body never   *)
(* runs and the Estimate is returned as built.                             *)
(***************************************************************************)
\* variant: the coroutine awaited, its body rescaling the Estimate
CoroutineAwaited(est, doc, now, factor) ==
    [estimate |-> IF doc.cloud_cover = <<>> THEN est
                  ELSE AdjustEstimate(est, doc.time, doc.cloud_cover, now, factor),
     ran |-> 1]

CoroutineNotAwaited(est, doc, now, factor) == [estimate |-> est, ran |-> 0]

EstimateCloudResponse ==
    /\ pc = "estimate_cloud"
    /\ \E doc \in InputFeeds :
        LET res == CoroutineNotAwaited(Val(estimate), doc, now_utc, cloud_correction_factor)
        IN  /\ estimate' = Some(res.estimate)
            /\ passes' = passes + res.ran
    /\ base' = estimate
    /\ IF caller = "coordinator"
       THEN /\ pc' = "coordinator_cloud"
            /\ outcome' = outcome
       ELSE /\ pc' = "returned"
            /\ outcome' = "ok"
    /\ UNCHANGED <<config, retained, call, now_utc, error, cycle, requested, at_start, fetched, response>>

CloudFailures == {400, 404, 429, 500, 502, 503}

EstimateCloudError ==
    /\ pc = "estimate_cloud"
    /\ \E status \in CloudFailures :
        /\ ~IsNone(CloudFetchError(status))
        /\ Raise(Val(CloudFetchError(status)))
    /\ UNCHANGED <<config, retained, call, now_utc, estimate, base, passes, cycle, requested, at_start, fetched,
                   response>>

(***************************************************************************)
(* coordinator._adjust_estimate_with_cloud_cover(estimate, cloud_cover_data)*)
(* with hourly.time read from last_cloud_api_response.                     *)
(***************************************************************************)
\* variant: every pass rescales the values estimate() returned
CorrectionPassOfOriginal(est, doc) ==
    IF doc.cloud_cover = <<>>
    THEN [estimate |-> est,
          cloud_cover_data |-> cloud_cover_data,
          original_values |-> original_values,
          adjustment_stats |-> adjustment_stats,
          raised |-> None]
    ELSE IF HasNull(doc.cloud_cover)
    THEN [estimate |-> est,
          cloud_cover_data |-> doc.cloud_cover,
          original_values |-> OriginalValues(Val(base)),
          adjustment_stats |-> adjustment_stats,
          raised |-> Some("TypeError")]
    ELSE LET after == AdjustEstimate(Val(base), doc.time, doc.cloud_cover, now_utc,
                                     cloud_correction_factor)
         IN  [estimate |-> after,
              cloud_cover_data |-> doc.cloud_cover,
              original_values |-> OriginalValues(Val(base)),
              adjustment_stats |-> AdjustmentStats(Val(base), after, doc.cloud_cover),
              raised |-> None]

\* A null among the first 24 values fails the arithmetic, at the latest in
\* sum(cloud_cover_data[:24]); self.cloud_cover_data and
\* self.original_values are assigned before any arithmetic.
CorrectionPass(est, doc) ==
    IF doc.cloud_cover = <<>>
    THEN [estimate |-> est,
          cloud_cover_data |-> cloud_cover_data,
          original_values |-> original_values,
          adjustment_stats |-> adjustment_stats,
          raised |-> None]
    ELSE IF HasNull(doc.cloud_cover)
    THEN [estimate |-> est,
          cloud_cover_data |-> doc.cloud_cover,
          original_values |-> OriginalValues(est),
          adjustment_stats |-> adjustment_stats,
          raised |-> Some("TypeError")]
    ELSE LET after == AdjustEstimate(est, doc.time, doc.cloud_cover, now_utc,
                                     cloud_correction_factor)
         IN  [estimate |-> after,
              cloud_cover_data |-> doc.cloud_cover,
              original_values |-> OriginalValues(est),
              adjustment_stats |-> AdjustmentStats(est, after, doc.cloud_cover),
              raised |-> None]

StoreDailyForecasts(forecasts, est) ==
    [day \in (DOMAIN forecasts) \cup (DOMAIN est.wh_days) |->
        IF day \in DOMAIN est.wh_days THEN est.wh_days[day] ELSE forecasts[day]]

(***************************************************************************)
(* The coordinator's cloud document arrives: correction, daily_forecasts,  *)
(* and the Estimate becomes the coordinator's data.                        *)
(***************************************************************************)
\* variant: the pass reads hourly.time before the fetch has stored its
\* response
ResponseOfEarlierFetch(doc, earlier) ==
    [doc EXCEPT !.time = IF IsNone(earlier) THEN <<>> ELSE Val(earlier).time]

\* hourly.cloud_cover is handed to the pass, hourly.time is read from
\* self.last_cloud_api_response, which the fetch assigned before it returned
ResponseRead(doc, earlier) == doc

CoordinatorCloudResponse ==
    /\ pc = "coordinator_cloud"
    /\ \E doc \in InputFeeds :
        LET res == CorrectionPass(Val(estimate), ResponseRead(doc, last_cloud_api_response))
        IN  /\ last_cloud_api_response' = Some(doc)
            /\ fetched' = Some(doc)
            /\ estimate' = Some(res.estimate)
            /\ cloud_cover_data' = res.cloud_cover_data
            /\ original_values' = res.original_values
            /\ adjustment_stats' = res.adjustment_stats
            /\ IF IsNone(res.raised)
               THEN /\ daily_forecasts' = StoreDailyForecasts(daily_forecasts, res.estimate)
                    /\ data' = Some(res.estimate)
                    /\ pc' = "idle"
                    /\ outcome' = "ok"
                    /\ error' = error
               ELSE /\ Raise(Val(res.raised))
                    /\ UNCHANGED <<daily_forecasts, data>>
    /\ passes' = passes + 1
    /\ UNCHANGED <<config, call, now_utc, base, cycle, requested, at_start, response>>

CoordinatorCloudError ==
    /\ pc = "coordinator_cloud"
    /\ \E status \in CloudFailures :
        /\ ~IsNone(CloudFetchError(status))
        /\ Raise(Val(CloudFetchError(status)))
    /\ UNCHANGED <<config, retained, call, now_utc, estimate, base, passes, cycle, requested, at_start, fetched,
                   response>>

(***************************************************************************)
(* The correction called directly on the Estimate estimate() returned:     *)
(* the first call with a cloud document, a further call with the same one. *)
(***************************************************************************)
ApplyCorrection(doc) ==
    LET res == CorrectionPass(Val(estimate), doc)
    IN  /\ last_cloud_api_response' = Some(doc)
        /\ estimate' = Some(res.estimate)
        /\ cloud_cover_data' = res.cloud_cover_data
        /\ original_values' = res.original_values
        /\ adjustment_stats' = res.adjustment_stats
        /\ passes' = passes + 1
        /\ UNCHANGED <<config, call, now_utc, pc, error, outcome, base, cycle, requested, at_start, fetched,
                       response, data,
                       daily_forecasts>>

CallAdjust ==
    /\ pc = "returned"
    /\ passes = 0
    /\ \E doc \in InputFeeds : ApplyCorrection(doc)

CallAdjustAgain ==
    /\ pc = "returned"
    /\ passes > 0
    /\ passes < MaxPasses
    /\ ApplyCorrection(Val(last_cloud_api_response))

Next ==
    \/ Construct
    \/ StartCycle
    \/ WeatherResponse
    \/ WeatherError
    \/ EstimateCloudResponse
    \/ EstimateCloudError
    \/ CoordinatorCloudResponse
    \/ CoordinatorCloudError

Spec == Init /\ [][Next]_vars

NextClient ==
    \/ Construct
    \/ CallEstimate
    \/ WeatherResponse
    \/ WeatherError
    \/ EstimateCloudResponse
    \/ EstimateCloudError

SpecClient == InitClient /\ [][NextClient]_vars

NextHarness ==
    \/ CallAdjust
    \/ CallAdjustAgain

SpecHarness == InitHarness /\ [][NextHarness]_vars

(***************************************************************************)
(* OpenMeteoSolarForecast(...) constructed from per-array fields of any    *)
(* shape.                                                                  *)
(***************************************************************************)
InitConstruct ==
    /\ caller = "construct"
    /\ n_arrays = 1
    /\ ac_wp = None
    /\ cloud_correction_factor = <<7, 10>>
    /\ now_utc = At(1, 22, 0)
    /\ pc = "new"
    /\ idx = 0
    /\ utc_offset = None
    /\ w_avg = EmptyDict
    /\ w_inst = EmptyDict
    /\ estimate = None
    /\ outcome = "none"
    /\ base = None
    /\ contrib = NoContrib
    /\ cycle = 0
    /\ options = ValidOptions
    /\ damping = None
    /\ requested = FALSE
    /\ response = None
    /\ fetched = None
    /\ InitCoordinator
    /\ \E f \in [FieldNames -> Shapes] : fields = Some([given |-> f, value |-> f])

ConstructClient ==
    /\ caller = "construct"
    /\ pc = "new"
    /\ LET res == PostInit(Val(fields).given)
       IN  /\ fields' = Some([Val(fields) EXCEPT !.value = res.fields])
           /\ error' = res.error
           /\ IF IsNone(res.error)
              THEN pc' = "idle" /\ outcome' = outcome
              ELSE pc' = "unconstructed" /\ outcome' = "failed"
    /\ UNCHANGED <<caller, n_arrays, ac_wp, cloud_correction_factor, damping, options,
                   retained, call, now_utc, estimate, base, passes, cycle, requested,
                   at_start, fetched, response>>

NextConstruct == ConstructClient

SpecConstruct == InitConstruct /\ [][NextConstruct]_vars

(***************************************************************************)
(* The damping_factors of one day of samples: estimate() evaluates         *)
(* calculate_damping_coefficient for each time of time_arr in order.       *)
(***************************************************************************)
InitDamping ==
    /\ caller = "damping"
    /\ n_arrays = 1
    /\ ac_wp = None
    /\ cloud_correction_factor = <<7, 10>>
    /\ now_utc = At(1, 22, 0)
    /\ pc = "idle"
    /\ idx = 0
    /\ utc_offset = None
    /\ w_avg = EmptyDict
    /\ w_inst = EmptyDict
    /\ estimate = None
    /\ outcome = "none"
    /\ base = None
    /\ contrib = NoContrib
    /\ cycle = 0
    /\ options = ValidOptions
    /\ fields = None
    /\ requested = FALSE
    /\ response = None
    /\ fetched = None
    /\ InitCoordinator
    /\ \E sunrise \in Sunrises, sunset \in Sunsets, dm \in DampingOptions, de \in DampingOptions :
        damping = Some([sunrise |-> sunrise, sunset |-> sunset,
                        damping_morning |-> dm, damping_evening |-> de,
                        damping_factors |-> <<>>])

DampingFactor ==
    /\ caller = "damping"
    /\ Len(Val(damping).damping_factors) < Len(DampingTimes)
    /\ LET d == Val(damping)
           time == DampingTimes[Len(d.damping_factors) + 1]
           c == calculate_damping_coefficient(RInt(time), RInt(d.sunrise), RInt(d.sunset),
                                              d.damping_morning, d.damping_evening)
       IN  damping' = Some([d EXCEPT !.damping_factors = Append(@, c)])
    /\ UNCHANGED <<caller, n_arrays, ac_wp, cloud_correction_factor, now_utc, pc, idx,
                   utc_offset, w_avg, w_inst, estimate, error, outcome, base, contrib,
                   passes, cycle, retained, options, fields, requested, at_start, fetched, response>>

NextDamping == DampingFactor

SpecDamping == InitDamping /\ [][NextDamping]_vars

(***************************************************************************)
(* Properties of estimate() (SpecClient)                                   *)
(***************************************************************************)
Returned == caller = "client" /\ pc = "returned"

\* C1: in the Estimate estimate() returns, watts[t] is the sum over the
\* arrays of the per-sample power at t, cut to the AC ceiling ac_kwp * 1000;
\* without a ceiling it is the plain sum.
C1_WattsIsClampedSum ==
    Returned =>
        /\ DOMAIN Val(estimate).watts = DOMAIN contrib.inst
        /\ \A t \in DOMAIN Val(estimate).watts :
            LET total == SeqSum(contrib.inst[t])
            IN  Val(estimate).watts[t] =
                    RInt(IF IsNone(ac_wp) \/ total <= Val(ac_wp)
                         THEN total ELSE Val(ac_wp))

\* two arrays of 500 W each under a ceiling of 800 W
C1_Witness ==
    /\ Returned
    /\ n_arrays = 2
    /\ ac_wp = Some(800)
    /\ \E t \in DOMAIN Val(estimate).watts :
        /\ contrib.inst[t] = <<500, 500>>
        /\ Val(estimate).watts[t] = RInt(800)

\* C2: in the Estimate estimate() returns (before any cloud correction),
\* wh_days[d] is the exact sum of wh_period[h] over the hours h on date d.
C2_WhDaysIsSumOfWhPeriod ==
    Returned =>
        \A d \in DOMAIN Val(estimate).wh_days :
            Val(estimate).wh_days[d] =
                RSumOver(Val(estimate).wh_period,
                         {h \in DOMAIN Val(estimate).wh_period : DateOf(h) = d})

\* a date with two hours of production
C2_Witness ==
    /\ Returned
    /\ \E h1, h2 \in DOMAIN Val(estimate).wh_period :
        /\ h1 # h2
        /\ DateOf(h1) = DateOf(h2)
        /\ Val(estimate).wh_period[h1] # RZero
        /\ Val(estimate).wh_period[h2] # RZero
        /\ Val(estimate).wh_days[DateOf(h1)] # RZero

Responded == caller = "client" /\ ~IsNone(response)
Rejected(statuses, kind) ==
    Val(response).status \in statuses =>
        /\ error = Some(kind)
        /\ pc = "idle"
        /\ outcome = "failed"
        /\ IsNone(estimate)
\* C15: _request turns a response into one error kind and no data: 502 and
\* 503 a connection error, 400 a request error, 401 and 403 an
\* authentication error, 422 a config error, 429 a rate-limit error, and a
\* successful response that is not application/json an
\* OpenMeteoSolarForecastError; estimate() then ends without an Estimate.
C15_StatusMapsToOneErrorKind ==
    Responded =>
        /\ Rejected({502, 503}, "OpenMeteoSolarForecastConnectionError")
        /\ Rejected({400}, "OpenMeteoSolarForecastRequestError")
        /\ Rejected({401, 403}, "OpenMeteoSolarForecastAuthenticationError")
        /\ Rejected({422}, "OpenMeteoSolarForecastConfigError")
        /\ Rejected({429}, "OpenMeteoSolarForecastRatelimitError")
        /\ ~Val(response).is_json =>
                Rejected({200}, "OpenMeteoSolarForecastError")

C15_Witness ==
    /\ Responded
    /\ n_arrays = 2
    /\ idx = 1
    /\ Val(response).status = 200
    /\ ~Val(response).is_json
    /\ error = Some("OpenMeteoSolarForecastError")

\* C16: when the utc_offset_seconds of an array's response differs from the
\* first array's, estimate() raises OpenMeteoSolarForecastConfigError and
\* returns no Estimate; the documents summed so far, and those of a
\* returned Estimate, all carry one offset.
C16_DifferingOffsetsFailTheCall ==
    caller = "client" =>
        /\ Cardinality(contrib.offsets) <= 1
        /\ (/\ ~IsNone(response)
            /\ ~IsNone(utc_offset)
            /\ ~IsNone(Val(response).utc_offset_seconds)
            /\ Val(response).utc_offset_seconds # utc_offset) =>
                /\ error = Some("OpenMeteoSolarForecastConfigError")
                /\ pc = "idle"
                /\ outcome = "failed"
                /\ IsNone(estimate)
        /\ Returned =>
                /\ contrib.offsets = {Val(utc_offset)}
                /\ Val(estimate).api_timezone = Val(utc_offset)

C16_Witness ==
    /\ caller = "client"
    /\ n_arrays = 2
    /\ idx = 1
    /\ utc_offset = Some(0)
    /\ Val(response).utc_offset_seconds = Some(180)
    /\ error = Some("OpenMeteoSolarForecastConfigError")
    /\ contrib.offsets = {0}

\* C25: in the Estimate estimate() returns, watts has a key exactly at the
\* interval starts where some array's sample has a predecessor and none of
\* gti_avg[i], gti_inst[i], temp[i-1], temp[i] null; an interval start where
\* every sample was skipped has no key, and without a ceiling the value is
\* the sum of the complete samples alone.
C25_SkippedSamplesAddNothing ==
    Returned =>
        /\ DOMAIN Val(estimate).watts = DOMAIN contrib.inst
        /\ \A t \in contrib.skipped \ DOMAIN contrib.inst :
                t \notin DOMAIN Val(estimate).watts
        /\ IsNone(ac_wp) =>
                \A t \in DOMAIN Val(estimate).watts :
                    Val(estimate).watts[t] = RInt(SeqSum(contrib.inst[t]))

\* two arrays: the first sample has irradiance and no key, 12:00 is skipped
\* by both arrays and has no key, 12:15 holds the one complete sample
C25_Witness ==
    /\ Returned
    /\ n_arrays = 2
    /\ IsNone(ac_wp)
    /\ At(1, 0, 0) \in DOMAIN contrib.inst
    /\ At(1, 0, 0) - 15 \in contrib.skipped \ DOMAIN Val(estimate).watts
    /\ At(1, 12, 0) \in contrib.skipped \ DOMAIN Val(estimate).watts
    /\ At(1, 12, 15) \in contrib.skipped \cap DOMAIN contrib.inst
    /\ contrib.inst[At(1, 12, 15)] = <<500>>
    /\ Val(estimate).watts[At(1, 12, 15)] = RInt(500)

\* the averaged watts of the interval starting at t, summed over the arrays
\* and cut to the ceiling
ClampedAverage(t) ==
    LET total == SeqSum(contrib.avg[t])
    IN  IF IsNone(ac_wp) \/ total <= Val(ac_wp) THEN total ELSE Val(ac_wp)

\* the interval starts with a sample that fall in hour h
IntervalsIn(h) == {t \in DOMAIN contrib.avg : HourStart(t) = h}

RECURSIVE ClampedTotal(_)
ClampedTotal(T) ==
    IF T = {} THEN 0
    ELSE LET t == CHOOSE u \in T : TRUE
         IN  ClampedAverage(t) + ClampedTotal(T \ {t})

\* C27: in the Estimate estimate() returns, wh_period[h] is the arithmetic
\* mean of the clamped averaged watts of the intervals starting in hour h
\* (interval start = sample time - 15 min), over as many as there are.
C27_WhPeriodIsHourlyMean ==
    Returned =>
        \A h \in DOMAIN Val(estimate).wh_period :
            /\ IntervalsIn(h) # {}
            /\ Val(estimate).wh_period[h] =
                    RDiv(RInt(ClampedTotal(IntervalsIn(h))),
                         RInt(Cardinality(IntervalsIn(h))))

\* hour 12:00 of day 1 with two intervals, 900 W cut to 800 W and 450 W;
\* hour 01:00 of day 2 with one
C27_Witness ==
    /\ Returned
    /\ ac_wp = Some(800)
    /\ IntervalsIn(At(1, 12, 0)) = {At(1, 12, 0), At(1, 12, 15)}
    /\ contrib.avg[At(1, 12, 0)] = <<450, 450>>
    /\ contrib.avg[At(1, 12, 15)] = <<450>>
    /\ Val(estimate).wh_period[At(1, 12, 0)] = <<625, 1>>
    /\ IntervalsIn(At(2, 1, 0)) = {At(2, 1, 0)}
    /\ Val(estimate).wh_period[At(2, 1, 0)] # RZero

\* C30: in the Estimate estimate() returns, the hours of the watts keys are
\* the keys of wh_period and the dates of the wh_period keys are the keys of
\* wh_days; every hour and every date has a complete 15-minute sample of
\* some array under it.
C30_SeriesKeysConsistent ==
    Returned =>
        LET e == Val(estimate)
        IN  /\ {HourStart(t) : t \in DOMAIN e.watts} = DOMAIN e.wh_period
            /\ {DateOf(h) : h \in DOMAIN e.wh_period} = DOMAIN e.wh_days
            /\ \A h \in DOMAIN e.wh_period :
                    \E t \in DOMAIN contrib.inst : HourStart(t) = h
            /\ \A d \in DOMAIN e.wh_days :
                    \E t \in DOMAIN contrib.inst : DateOf(t) = d

\* samples on two dates, two of them in one hour, and a skipped sample in
\* an hour of its own
C30_Witness ==
    /\ Returned
    /\ DOMAIN Val(estimate).watts = {At(1, 12, 0), At(1, 12, 15), At(2, 1, 0)}
    /\ DOMAIN Val(estimate).wh_period = {At(1, 12, 0), At(2, 1, 0)}
    /\ DOMAIN Val(estimate).wh_days = {1, 2}
    /\ At(1, 0, 0) \in contrib.skipped

(***************************************************************************)
(* Properties of the correction pass called on a returned Estimate         *)
(* (SpecHarness).  Before is the Estimate as estimate() returned it, After *)
(* the Estimate in its present state, Feed the cloud document of the pass. *)
(***************************************************************************)
Before == Val(base)
After == Val(estimate)
Feed == Val(last_cloud_api_response)
Today == DateOf(EstimateNow(Before, now_utc))

Corrected(n) == caller = "harness" /\ passes = n

AllCover(c) ==
    /\ Feed.cloud_cover # <<>>
    /\ \A i \in 1 .. Len(Feed.cloud_cover) : Feed.cloud_cover[i] = c

\* the cloud stamps that parse and have a cover value beside them
Paired == {i \in 1 .. Len(Feed.time) :
              i <= Len(Feed.cloud_cover) /\ ~IsNone(FromIsoFormat(Feed.time[i]))}
Stamps == {Val(FromIsoFormat(Feed.time[i])) : i \in Paired}

\* the cover beside stamp s (the last one, where a stamp is repeated)
StampCover(s) ==
    LET last == CHOOSE i \in Paired :
                    /\ Val(FromIsoFormat(Feed.time[i])) = s
                    /\ \A j \in Paired : Val(FromIsoFormat(Feed.time[j])) = s => j <= i
    IN  Feed.cloud_cover[last]

\* distance in minutes from a power timestamp to a cloud stamp, as compared
Distance(t, s) == Abs(AsNaiveUtc(t, Before.api_timezone) - s)
Nearest(t) == {s \in Stamps : \A u \in Stamps : Distance(t, s) <= Distance(t, u)}
HasNear(t) == \E s \in Stamps : Distance(t, s) <= MatchWindow

HourIndex(t) == HourOf(t) + 24 * (DateOf(t) - Today)
HasIndex(t) == 0 <= HourIndex(t) /\ HourIndex(t) < Len(Feed.cloud_cover)
IndexCover(t) == IF HasIndex(t) THEN Feed.cloud_cover[HourIndex(t) + 1] ELSE 0

SampleAttributed(t) == HasNear(t) \/ HasIndex(t)
DateAttributed(d) ==
    \/ \E s \in Stamps : DateOf(s) = d
    \/ 0 <= 24 * (d - Today) /\ 24 * (d - Today) < Len(Feed.cloud_cover)

Scaled(v, c) == RMul(v, AdjustmentFactor(RInt(c), cloud_correction_factor))
RLess(a, b) == a[1] * b[2] < b[1] * a[2]

\* C3 (as claimed): with cover 100 for every cloud sample and coefficient
\* 0.7, one pass multiplies by exactly 0.3 every watts, wh_period and wh_days
\* entry that has a cloud sample attributed to it, with or without cloud
\* timestamps.
C3_OvercastScalesByThreeTenths ==
    (Corrected(1) /\ AllCover(100) /\ cloud_correction_factor = <<7, 10>>) =>
        /\ \A t \in DOMAIN Before.watts :
            SampleAttributed(t) => After.watts[t] = RMul(<<3, 10>>, Before.watts[t])
        /\ \A h \in DOMAIN Before.wh_period :
            SampleAttributed(h) => After.wh_period[h] = RMul(<<3, 10>>, Before.wh_period[h])
        /\ \A d \in DOMAIN Before.wh_days :
            DateAttributed(d) => After.wh_days[d] = RMul(<<3, 10>>, Before.wh_days[d])

\* C4: when every cover value of a non-empty feed is 0, one pass leaves
\* every value of watts, wh_period and wh_days unchanged, for every
\* coefficient, with or without cloud timestamps.
C4_ClearSkyLeavesValuesUnchanged ==
    (Corrected(1) /\ AllCover(0)) =>
        /\ After.watts = Before.watts
        /\ After.wh_period = Before.wh_period
        /\ After.wh_days = Before.wh_days

\* a clear-sky feed with a stamp matched to a producing sample
C4_Witness ==
    /\ Corrected(1)
    /\ AllCover(0)
    /\ cloud_correction_factor = <<1, 1>>
    /\ \E t \in DOMAIN Before.watts : HasNear(t) /\ Before.watts[t] # RZero
    /\ \E h \in DOMAIN Before.wh_period : Before.wh_period[h] # RZero

\* the Estimate after one pass over Before with Feed
Once == CorrectionPass(Before, Feed).estimate

Series == {"watts", "wh_period", "wh_days"}

\* C8 (as claimed): the correction invoked twice on the same Estimate with
\* the same cloud feed gives a result different from invoking it once.
C8_TwiceDiffersFromOnce ==
    Corrected(2) => \E f \in Series : After[f] # Once[f]

\* C8 (amended): the second invocation rescales the once-corrected values:
\* a value differs from its once-corrected value exactly when the first
\* pass changed it and left it non-zero, and it is then strictly smaller.
C8_SecondPassRescalesAgain ==
    Corrected(2) =>
        \A f \in Series : \A k \in DOMAIN Before[f] :
            /\ (After[f][k] # Once[f][k]) <=>
                   (Once[f][k] # RZero /\ Once[f][k] # Before[f][k])
            /\ (After[f][k] # Once[f][k]) => RLess(After[f][k], Once[f][k])

\* two passes under an overcast feed: a value reduced twice
C8_Witness ==
    /\ Corrected(2)
    /\ AllCover(100)
    /\ \E k \in DOMAIN Before.watts :
        /\ RLess(Once.watts[k], Before.watts[k])
        /\ RLess(After.watts[k], Once.watts[k])

C10_NoonMatchesElevenFiftyNine ==
    (/\ Corrected(1)
     /\ Feed.time = <<IsoString(1, 11, 59)>>
     /\ Len(Feed.cloud_cover) = 1
     /\ At(1, 12, 0) \in DOMAIN Before.watts) =>
        After.watts[At(1, 12, 0)] = Scaled(Before.watts[At(1, 12, 0)], Feed.cloud_cover[1])

\* C11 (as claimed): the pass multiplies every wh_period[h] by
\* 1 - (cloud_percent/100) * coefficient, cloud_percent found for h by the
\* alignment used for watts (nearest stamp within 2 hours, else the index
\* heuristic), with and without cloud timestamps.
C11_WhPeriodAlignedLikeWatts ==
    (Corrected(1) /\ Feed.cloud_cover # <<>>) =>
        \A h \in DOMAIN Before.wh_period :
            IF HasNear(h)
            THEN \E s \in Nearest(h) :
                    After.wh_period[h] = Scaled(Before.wh_period[h], StampCover(s))
            ELSE After.wh_period[h] = Scaled(Before.wh_period[h], IndexCover(h))

\* the mean cover of the cloud samples attributed to date d
MeanCover(d) ==
    AvgCloudCover(d, DateCloudCover(Feed.time, Feed.cloud_cover, Today),
                  Feed.cloud_cover, Today)

\* C12 (as claimed): the pass sets wh_days[d] to its previous value times
\* 1 - mean_cover(d)/100 * coefficient, the coefficient being the configured
\* one, the same as for watts and wh_period.
C12_WhDaysUsesConfiguredCoefficient ==
    (Corrected(1) /\ Feed.cloud_cover # <<>>) =>
        \A d \in DOMAIN Before.wh_days :
            After.wh_days[d] =
                RMul(Before.wh_days[d],
                     AdjustmentFactor(MeanCover(d), cloud_correction_factor))

\* C13: a correction pass changes only values: after it the key sets of
\* watts, wh_period and wh_days are those before it, for every cloud feed.
C13_KeySetsUnchanged ==
    (caller = "harness" /\ passes >= 1) =>
        \A f \in Series : DOMAIN After[f] = DOMAIN Before[f]

\* a pass that changed values, under a feed stamped at a time that is no
\* key of watts
C13_Witness ==
    /\ Corrected(1)
    /\ Feed.cloud_cover # <<>>
    /\ \E s \in Stamps : s \notin DOMAIN Before.watts
    /\ After.watts # Before.watts
    /\ After.wh_days # Before.wh_days

\* a cloud stamp that does not parse has a cover value beside it, and
\* another stamp parses
MalformedAmongStamps ==
    /\ Corrected(1)
    /\ Stamps # {}
    /\ \E i \in 1 .. Len(Feed.time) :
        i <= Len(Feed.cloud_cover) /\ IsNone(FromIsoFormat(Feed.time[i]))

\* the stamps that parse, on date d
PairedOn(d) == {i \in Paired : DateOf(Val(FromIsoFormat(Feed.time[i]))) = d}
RECURSIVE CoverTotal(_)
CoverTotal(I) ==
    IF I = {} THEN 0
    ELSE LET i == CHOOSE j \in I : TRUE
         IN  Feed.cloud_cover[i] + CoverTotal(I \ {i})

\* C26 (as claimed): when one cloud stamp does not parse, the pass ends
\* without error and the stamps that parse serve the alignment of watts and
\* of wh_period (nearest within 2 hours, else the index) and the daily mean
\* of the dates they fall on.
C26_UnparsedStampSkippedOthersUsed ==
    MalformedAmongStamps =>
        /\ IsNone(error)
        /\ \A t \in DOMAIN Before.watts :
            IF HasNear(t)
            THEN \E s \in Nearest(t) :
                    After.watts[t] = Scaled(Before.watts[t], StampCover(s))
            ELSE After.watts[t] = Scaled(Before.watts[t], IndexCover(t))
        /\ \A h \in DOMAIN Before.wh_period :
            IF HasNear(h)
            THEN \E s \in Nearest(h) :
                    After.wh_period[h] = Scaled(Before.wh_period[h], StampCover(s))
            ELSE After.wh_period[h] = Scaled(Before.wh_period[h], IndexCover(h))
        /\ \A d \in DOMAIN Before.wh_days :
            PairedOn(d) # {} =>
                After.wh_days[d] =
                    RMul(Before.wh_days[d],
                         AdjustmentFactor(<<CoverTotal(PairedOn(d)), Cardinality(PairedOn(d))>>,
                                          DailyCorrectionFactor(cloud_correction_factor)))

\* adjustment_stats.get("adjustment_percentage", 0), as the sensor reads it
AdjustmentPercentage ==
    IF "adjustment_percentage" \in DOMAIN adjustment_stats
    THEN adjustment_stats.adjustment_percentage
    ELSE RZero

\* C28: with every cover value in 0..100, a coefficient in [0, 1] and no
\* negative value in the Estimate, every value of watts, wh_period and
\* wh_days after a pass is between 0 and its value before, and
\* adjustment_percentage is between -100 and 0.
C28_PassOnlyLowers ==
    (/\ caller = "harness"
     /\ passes >= 1
     /\ \A i \in 1 .. Len(Feed.cloud_cover) : Feed.cloud_cover[i] \in 0 .. 100
     /\ RLeq(RZero, cloud_correction_factor)
     /\ RLeq(cloud_correction_factor, ROne)
     /\ \A f \in Series : \A k \in DOMAIN Before[f] : RLeq(RZero, Before[f][k])) =>
        /\ \A f \in Series : \A k \in DOMAIN Before[f] :
                /\ RLeq(RZero, After[f][k])
                /\ RLeq(After[f][k], Before[f][k])
        /\ RLeq(RInt(-100), AdjustmentPercentage)
        /\ RLeq(AdjustmentPercentage, RZero)

\* one pass under a partly attributed overcast feed: a value of each series
\* lowered but not to 0, and a percentage strictly between -100 and 0
C28_Witness ==
    /\ Corrected(1)
    /\ RLess(RZero, cloud_correction_factor)
    /\ RLess(cloud_correction_factor, ROne)
    /\ \A f \in Series : \E k \in DOMAIN Before[f] :
            RLess(RZero, After[f][k]) /\ RLess(After[f][k], Before[f][k])
    /\ RLess(RInt(-100), AdjustmentPercentage)
    /\ RLess(AdjustmentPercentage, RZero)

\* C29: a watts sample with no cloud stamp within 2 hours and with the
\* index hour + 24 * (date - today) outside the cloud array (every sample
\* dated before today among them) has the same value after the pass.
C29_UnattributedWattsUnchanged ==
    (caller = "harness" /\ passes = 1) =>
        \A t \in DOMAIN Before.watts :
            ~SampleAttributed(t) => After.watts[t] = Before.watts[t]

\* under an overcast feed, a producing sample dated before today and one
\* past the end of the array keep their value while another is lowered
C29_Witness ==
    /\ Corrected(1)
    /\ Feed.cloud_cover # <<>>
    /\ AllCover(100)
    /\ \E t \in DOMAIN Before.watts :
        /\ DateOf(t) < Today
        /\ ~SampleAttributed(t)
        /\ Before.watts[t] # RZero
        /\ After.watts[t] = Before.watts[t]
    /\ \E t \in DOMAIN Before.watts :
        /\ HourIndex(t) >= Len(Feed.cloud_cover)
        /\ ~SampleAttributed(t)
        /\ Before.watts[t] # RZero
        /\ After.watts[t] = Before.watts[t]
    /\ \E t \in DOMAIN Before.watts : RLess(After.watts[t], Before.watts[t])

HoursOn(d) == {h \in DOMAIN Before.wh_period : DateOf(h) = d}

\* C21 (as claimed): after a pass on a non-empty feed,
\* adjustment_stats.daily_adjustments holds, for each date with wh_period
\* entries, the total of that date's wh_period before and after the pass.
C21_DailyAdjustmentsHoldPerDayTotals ==
    (Corrected(1) /\ Feed.cloud_cover # <<>>) =>
        \A h \in DOMAIN Before.wh_period :
            LET d == DateOf(h)
                log == adjustment_stats.daily_adjustments
            IN  /\ d \in DOMAIN log
                /\ log[d].original_total = RSumOver(Before.wh_period, HoursOn(d))
                /\ log[d].adjusted_total = RSumOver(After.wh_period, HoursOn(d))

(***************************************************************************)
(* Properties of the update cycle (Spec)                                   *)
(***************************************************************************)
CycleDone == caller = "coordinator" /\ pc = "idle" /\ outcome = "ok"

\* C5 (as claimed): after any update cycle whose cloud feed is empty,
\* whatever cycles ran before, the Estimate's values are the pre-correction
\* ones and adjustment_percentage is 0.
C5_EmptyFeedNoAdjustment ==
    (CycleDone /\ Feed.cloud_cover = <<>>) =>
        /\ Val(data).watts = Before.watts
        /\ Val(data).wh_period = Before.wh_period
        /\ Val(data).wh_days = Before.wh_days
        /\ AdjustmentPercentage = RZero

\* C6 (as claimed): when the cloud fetch fails and every weather fetch
\* succeeded, the update cycle does not fail and returns the uncorrected
\* Estimate.
C6_CloudFailureKeepsBaseEstimate ==
    (caller = "coordinator" /\ error = Some("Exception")) =>
        /\ outcome = "ok"
        /\ data = Some(BuildEstimate(w_avg, w_inst, ac_wp, Val(utc_offset)))

\* C7: in one update cycle the correction runs exactly once on the
\* Estimate: the Estimate returned is the one estimate() built, rescaled by
\* one pass.
C7_CorrectedExactlyOnce ==
    CycleDone =>
        /\ passes = 1
        /\ Before = BuildEstimate(w_avg, w_inst, ac_wp, Val(utc_offset))
        /\ Val(data) = IF Feed.cloud_cover = <<>> THEN Before
                       ELSE AdjustEstimate(Before, Feed.time, Feed.cloud_cover, now_utc,
                                           cloud_correction_factor)

\* a cycle whose pass reduced a value
C7_Witness ==
    /\ CycleDone
    /\ passes = 1
    /\ \E t \in DOMAIN Before.watts : RLess(Val(data).watts[t], Before.watts[t])


\* C23: in an update cycle the correction runs only after the cycle's own
\* cloud fetch has returned: it reads the values and the timestamps of the
\* document fetched in this cycle, never those of an earlier cycle, and a
\* cycle whose cloud fetch fails runs no correction.
C23_CorrectionReadsThisCyclesFetch ==
    caller = "coordinator" =>
        /\ passes >= 1 => (~IsNone(fetched) /\ last_cloud_api_response = fetched)
        /\ IsNone(fetched) => (pc # "idle" \/ outcome # "ok")
        /\ (CycleDone /\ Val(fetched).cloud_cover # <<>>) =>
                /\ cloud_cover_data = Val(fetched).cloud_cover
                /\ Val(data) = AdjustEstimate(Before, Val(fetched).time,
                                               Val(fetched).cloud_cover, now_utc,
                                               cloud_correction_factor)
        /\ (CycleDone /\ Val(fetched).cloud_cover = <<>>) => Val(data) = Before

\* a second cycle corrected with its own document, which has no
\* timestamps, after a first cycle that was corrected with another one
C23_Witness ==
    /\ CycleDone
    /\ cycle = 2
    /\ Val(fetched).cloud_cover = <<0>>
    /\ Val(fetched).time = <<>>
    /\ at_start.cloud_cover_data = <<100>>
    /\ cloud_cover_data = <<0>>
    /\ ~IsNone(at_start.data)

\* C24 (as claimed): a pass over a non-empty feed without any timestamp
\* ends without error and scales every watts and wh_period value by the
\* cover at index hour + 24 * (date - today) of hourly.cloud_cover, or
\* leaves it when that index is out of bounds.
C24_NoTimestampsUsesHourIndex ==
    (passes = 1 /\ ~IsNone(last_cloud_api_response)
        /\ Feed.time = <<>> /\ Feed.cloud_cover # <<>>) =>
        /\ IsNone(error)
        /\ \A t \in DOMAIN Before.watts :
                After.watts[t] = Scaled(Before.watts[t], IndexCover(t))
        /\ \A h \in DOMAIN Before.wh_period :
                After.wh_period[h] = Scaled(Before.wh_period[h], IndexCover(h))

WeatherFailed ==
    /\ cycle >= 1
    /\ ~IsNone(response)
    /\ Val(response).status # 200 \/ ~Val(response).is_json
CycleFailed == caller = "coordinator" /\ cycle >= 1 /\ pc = "idle" /\ outcome = "failed"

\* C17: when _request raises for the weather fetch of an array, the update
\* cycle fails: no Estimate is built or returned, and the coordinator's
\* data and daily_forecasts stay what they were when the cycle began.
C17_WeatherFailureFailsTheCycle ==
    WeatherFailed =>
        /\ pc = "idle"
        /\ outcome = "failed"
        /\ ~IsNone(error)
        /\ IsNone(estimate)
        /\ data = at_start.data
        /\ daily_forecasts = at_start.daily_forecasts

\* a second cycle failing on its weather fetch, the first one's data kept
C17_Witness ==
    /\ caller = "coordinator"
    /\ cycle = 2
    /\ WeatherFailed
    /\ ~IsNone(data)
    /\ DOMAIN daily_forecasts # {}
    /\ outcome = "failed"

\* C18 (as claimed): after a failed update cycle daily_forecasts,
\* adjustment_stats, original_values and cloud_cover_data are what they were
\* when the cycle began.
C18_FailedCycleNotPartiallyApplied ==
    CycleFailed =>
        /\ daily_forecasts = at_start.daily_forecasts
        /\ adjustment_stats = at_start.adjustment_stats
        /\ original_values = at_start.original_values
        /\ cloud_cover_data = at_start.cloud_cover_data

\* C19 (as claimed): after a successful update cycle the Estimate,
\* daily_forecasts and adjustment_stats come from that cycle's fetches alone:
\* daily_forecasts holds the days of this cycle's Estimate and nothing else,
\* and adjustment_stats describes this cycle's correction.
C19_RetainedStateFromThisCycleOnly ==
    CycleDone =>
        /\ data = estimate
        /\ daily_forecasts = StoreDailyForecasts(EmptyDict, Val(data))
        /\ adjustment_stats =
              IF Feed.cloud_cover = <<>> THEN EmptyDict
              ELSE AdjustmentStats(Before, Val(data), Feed.cloud_cover)

Misconfigured ==
    \/ ~options.lists_match
    \/ ~options.coordinates_valid
    \/ Len(options.weather_model) # 1
ConfigurationErrors ==
    {Some("ValueError"), Some("OpenMeteoSolarForecastConfigError"),
     Some("OpenMeteoSolarForecastInvalidModel")}

\* C20: lists of mismatched length, coordinates out of range and a weather
\* model with a separator are raised before any HTTP request: an object so
\* configured never sends a request, its construction or its every call
\* ends with the configuration error, and no such error follows a request.
C20_ConfigurationErrorsBeforeAnyRequest ==
    /\ Misconfigured => ~requested
    /\ (Misconfigured /\ (pc = "unconstructed" \/ (pc = "idle" /\ cycle >= 1))) =>
            /\ outcome = "failed"
            /\ error \in ConfigurationErrors
    /\ (pc = "unconstructed" \/ error = Some("OpenMeteoSolarForecastInvalidModel")) =>
            ~requested
    /\ (options.lists_match /\ options.coordinates_valid) => pc # "unconstructed"
    /\ (~options.lists_match \/ ~options.coordinates_valid) => pc \in {"new", "unconstructed"}

\* the second cycle of a coordinator refused like the first
C20_Witness ==
    /\ caller = "coordinator"
    /\ cycle = 2
    /\ Len(options.weather_model) = 2
    /\ error = Some("OpenMeteoSolarForecastInvalidModel")
    /\ outcome = "failed"
    /\ ~requested

(***************************************************************************)
(* Properties of calculate_damping_coefficient (SpecDamping)               *)
(***************************************************************************)
Damped == caller = "damping"
Evaluated == 1 .. Len(Val(damping).damping_factors)
Coefficient(i) == Val(damping).damping_factors[i]
Midpoint == MorningEnd(RInt(Val(damping).sunrise), RInt(Val(damping).sunset))
InMorning(i) ==
    /\ Val(damping).sunrise <= DampingTimes[i]
    /\ RLeq(RInt(DampingTimes[i]), Midpoint)
InEvening(i) ==
    /\ RLeq(Midpoint, RInt(DampingTimes[i]))
    /\ DampingTimes[i] <= Val(damping).sunset
DampingEndpoints ==
    \A i \in Evaluated :
        LET t == DampingTimes[i]
            d == Val(damping)
        IN  /\ t = d.sunrise => Coefficient(i) = RSub(ROne, d.damping_morning)
            /\ RInt(t) = Midpoint => Coefficient(i) = ROne
            /\ t = d.sunset => Coefficient(i) = RSub(ROne, d.damping_evening)
            /\ (t < d.sunrise \/ t > d.sunset) => Coefficient(i) = ROne

\* C14 as stated: the coefficient is 1 - damping_morning at sunrise, 1 at
\* the midpoint, 1 - damping_evening at sunset, 1 outside [sunrise, sunset],
\* and strictly monotonic in between for every damping factor in [0, 1].
C14_StrictlyMonotonicForAllFactors ==
    Damped =>
        /\ DampingEndpoints
        /\ \A i, j \in Evaluated :
            i < j =>
                /\ (InMorning(i) /\ InMorning(j)) => RLess(Coefficient(i), Coefficient(j))
                /\ (InEvening(i) /\ InEvening(j)) => RLess(Coefficient(j), Coefficient(i))

\* C14, amended: the same values at sunrise, midpoint, sunset and outside;
\* between them the coefficient is strictly monotonic when the damping
\* factor of that half of the day is above 0, and constantly 1 when it is 0.
C14_MonotonicStrictWhenDamped ==
    Damped =>
        /\ DampingEndpoints
        /\ \A i, j \in Evaluated :
            i < j =>
                /\ (InMorning(i) /\ InMorning(j)) =>
                        IF Val(damping).damping_morning[1] > 0
                        THEN RLess(Coefficient(i), Coefficient(j))
                        ELSE Coefficient(i) = ROne /\ Coefficient(j) = ROne
                /\ (InEvening(i) /\ InEvening(j)) =>
                        IF Val(damping).damping_evening[1] > 0
                        THEN RLess(Coefficient(j), Coefficient(i))
                        ELSE Coefficient(i) = ROne /\ Coefficient(j) = ROne

C14_Witness ==
    /\ Damped
    /\ Len(Val(damping).damping_factors) = Len(DampingTimes)
    /\ Val(damping).damping_morning = <<1, 4>>
    /\ Val(damping).damping_evening = <<1, 1>>
    /\ \E i, j \in Evaluated : i < j /\ InMorning(i) /\ InMorning(j)
    /\ \E i, j \in Evaluated : i < j /\ InEvening(i) /\ InEvening(j)
    /\ \E i \in Evaluated : RInt(DampingTimes[i]) = Midpoint


(***************************************************************************)
(* Properties of __post_init__ (SpecConstruct)                             *)
(***************************************************************************)
Constructed == caller = "construct" /\ pc # "new"
Given == Val(fields).given
GivenLists == {ListFields[i] : i \in 1 .. 5}
\* the length the given dc_kwp stands for
GivenLength == IF IsNone(Given.dc_kwp) THEN Some(1) ELSE Given.dc_kwp
InconsistentShape ==
    \/ /\ \E n \in GivenLists : ~IsNone(Given[n])
       /\ \E n \in GivenLists : Given[n] # Given.dc_kwp
    \/ \E n \in FieldNames \ GivenLists : ~IsNone(Given[n]) /\ Given[n] # GivenLength

\* C22 (as claimed): a construction from fields of inconsistent shape ends
\* with OpenMeteoSolarForecastConfigError, and one that succeeds leaves the
\* eight fields as lists of one common length.
C22_InconsistentShapeIsConfigError ==
    Constructed =>
        IF InconsistentShape
        THEN pc = "unconstructed" /\ error = Some("OpenMeteoSolarForecastConfigError")
        ELSE /\ pc = "idle"
             /\ \A n \in FieldNames : Val(fields).value[n] = GivenLength

=============================================================================
